---- MODULE Spec2Model ----
(***************************************************************************)
(* AppsService of PREvant (api/src/services/apps_service.rs): the          *)
(* resolution of an application's service configurations                   *)
(* (create_or_update), delete_app and get_apps, on top of the              *)
(* Infrastructure trait and the application-companion templating.          *)
(***************************************************************************)
EXTENDS Integers, Sequences, FiniteSets, TLC

\* ------------------------------------------------------------------ bounds
\* longest list of service configs a caller passes to create_or_update
MaxConfigs == 2
\* longest list of application-companion templates in the configuration
MaxTemplates == 2

\* ------------------------------------------------------------------ domains
Procs == {"c1", "c2"}
Apps == {"master", "review"}
Names == {"web", "db"}
\* the image master runs at first, and the image a client posts
MasterImage == <<"i1">>
Images == {<<"i2">>}
NoRef == "-"

\* models::service::ServiceConfig: the name, the role marker, and the opaque
\* runtime parameters (here: the image, a sequence of strings)
ServiceConfig(n, t, i) == [service_name |-> n, container_type |-> t, image |-> i]

\* what a client can post: configs of type Primary
CallerConfigs == {ServiceConfig(n, "Primary", i) : n \in Names, i \in Images}

SeqsUpTo(S, n) == UNION {[1..m -> S] : m \in 0..n}

\* an application-companion template: the service it declares and the
\* service of the context its expressions refer to (NoRef: none)
Template(n, r) == [service_name |-> n, ref |-> r]
TemplateSet == {Template("adm", NoRef), Template("mon", "adm"), Template("web", "db")}

\* the configuration declares each companion once
TemplateLists ==
    {ts \in SeqsUpTo(TemplateSet, MaxTemplates) :
        \A i, j \in DOMAIN ts : i # j => ts[i] # ts[j]}

VARIABLES
    backend,          \* Infrastructure: app name -> configs of its running services
    templates,        \* Config: the application-companion templates, in load order
    pc,               \* per caller: where its call stands
    op,               \* per caller: the operation it called
    app_name,         \* per caller: argument app_name
    service_configs,  \* per caller: argument service_configs
    configs,          \* per caller: local `configs` of create_or_update
    k,                \* per caller: position of the loop over the templates
    trace,            \* per caller: the port calls this call has made, in order
    result,           \* per caller: what the call returned
    changed,          \* per caller: the backend's state changed during its call
    remembered        \* an earlier create_or_update: its inputs and the list it started

vars == <<backend, templates, pc, op, app_name, service_configs, configs, k, trace, result,
          changed, remembered>>

\* ------------------------------------------------------------------ values
NamesOf(cs) == {cs[i].service_name : i \in DOMAIN cs}

\* one invocation of a collaborator: the operation, the app it names, the
\* template index (0: none), the configs passed, whether it succeeded, and
\* the configs/services it returned
Call(o, a, n, arg, ok, ret) ==
    [op |-> o, app |-> a, n |-> n, arg |-> arg, ok |-> ok, ret |-> ret]

NoApps == [a \in {} |-> <<>>]
NoResult == [kind |-> "None", app |-> "-", services |-> <<>>, apps |-> NoApps]
Ok(services) == [kind |-> "Ok", app |-> "-", services |-> services, apps |-> NoApps]
OkApps(apps) == [kind |-> "Ok", app |-> "-", services |-> <<>>, apps |-> apps]

\* enum AppsServiceError and the From impls
AppNotFound(app) == [kind |-> "AppNotFound", app |-> app, services |-> <<>>, apps |-> NoApps]
FromFailureError == [kind |-> "InfrastructureError", app |-> "-", services |-> <<>>, apps |-> NoApps]
\* a ConfigError converted like an error of the infrastructure
FromConfigError_asInfrastructure ==
    [kind |-> "InfrastructureError", app |-> "-", services |-> <<>>, apps |-> NoApps]
FromConfigError == [kind |-> "InvalidServerConfiguration", app |-> "-", services |-> <<>>, apps |-> NoApps]
FromTemplateRenderError == [kind |-> "InvalidTemplateFormat", app |-> "-", services |-> <<>>, apps |-> NoApps]

\* ------------------------------------------------------------------ Infrastructure
\* get_services(): the running services grouped by app; an app without
\* services has no entry
GetServices(b) == [a \in {x \in Apps : b[x] # <<>>} |-> b[a]]

\* get_configs_of_app(app)
GetConfigsOfApp(b, app) == b[app]

\* start_services(app, configs, container_config): the app runs the configs
StartServicesIn(b, app, cs) == [b EXCEPT ![app] = cs]

\* stop_services(app): the app runs nothing
StopServicesIn(b, app) == [b EXCEPT ![app] = <<>>]

\* ------------------------------------------------------------------ templating
\* apply_templating_for_application_companion(template, app_name, configs)
FirstNamed(cs, n) == cs[CHOOSE i \in DOMAIN cs :
                          /\ cs[i].service_name = n
                          /\ \A j \in DOMAIN cs : cs[j].service_name = n => i <= j]

Resolvable(t, cs) == t.ref = NoRef \/ t.ref \in NamesOf(cs)

ApplyTemplating(t, app, cs) ==
    ServiceConfig(t.service_name, "ApplicationCompanion",
                  <<app>> \o (IF t.ref = NoRef THEN <<>> ELSE FirstNamed(cs, t.ref).image))

\* ------------------------------------------------------------------ bookkeeping
\* a step that may write the backend: every call under way notes a change
Touch ==
    changed' = [q \in Procs |-> IF pc[q] = "idle" THEN FALSE
                                ELSE changed[q] \/ backend' # backend]

\* the first step of p's call, which reads the backend only
Enter(p) == changed' = [changed EXCEPT ![p] = FALSE] /\ UNCHANGED backend

\* no call is remembered
NoCall == [app |-> "-", scs |-> <<>>, master |-> <<>>, sent |-> <<>>, live |-> FALSE]

\* with keep, the first create_or_update to invoke start_services is
\* remembered: its arguments, the reply of the master query (none: <<>>)
\* and the list it passed
Remember(p, keep) ==
    remembered' =
        IF keep /\ remembered = NoCall
        THEN [app |-> app_name[p], scs |-> service_configs[p],
              master |-> IF trace[p][1].op = "get_configs_of_app" THEN trace[p][1].ret ELSE <<>>,
              sent |-> trace'[p][Len(trace'[p])].arg, live |-> TRUE]
        ELSE remembered

\* the last element of a non-empty sequence
Last(s) == s[Len(s)]

\* ------------------------------------------------------------------ create_or_update
\* the working set begun from what the app runs
Cloned_running(app, scs) == backend[app] \o scs

\* line 67: the working set begins as a copy of the caller's configs
Cloned(app, scs) == scs

\* the replication step without the test of line 69
SkipsReplication_never(app) == FALSE

\* line 69: master is not replicated into itself
SkipsReplication(app) == "master" = app

\* the filter letting every master config through
NotOverridden_all(config, scs) == TRUE

\* the filter of lines 74-82: no caller config has the master config's name
NotOverridden(config, scs) ==
    ~ \E i \in DOMAIN scs : scs[i].service_name = config.service_name

\* the clone without line 85
Replicated_unmarked(config) == config

\* lines 84-85
Replicated(config) == [config EXCEPT !.container_type = "Replica"]

\* the replicas pushed in the reverse of the order of the master query
Replicas_reversed(master, scs) ==
    LET kept == SelectSeq(master, LAMBDA c : NotOverridden(c, scs))
    IN  [i \in 1..Len(kept) |-> Replicated(kept[Len(kept) + 1 - i])]

\* a master config skipped when a replica of its name was pushed already
Replicas_deduped(master, scs) ==
    LET kept == SelectSeq(master, LAMBDA c : NotOverridden(c, scs))
        firsts == {i \in DOMAIN kept :
                      \A j \in 1..(i - 1) : kept[j].service_name # kept[i].service_name}
        nth(j) == CHOOSE i \in firsts : Cardinality({x \in firsts : x < i}) = j - 1
    IN  [j \in 1..Cardinality(firsts) |-> Replicated(kept[nth(j)])]

\* lines 70-87: the configs pushed for the result of the master query
Replicas(master, scs) ==
    LET kept == SelectSeq(master, LAMBDA c : NotOverridden(c, scs))
    IN  [i \in 1..Len(kept) |-> Replicated(kept[i])]

Return(p, r) ==
    /\ pc' = [pc EXCEPT ![p] = "done"]
    /\ result' = [result EXCEPT ![p] = r]

\* lines 62-90: the call, the copy of the caller's configs, the replication
\* step and the load of the application-companion templates
CreateOrUpdate(p, app, scs) ==
    /\ pc[p] = "idle"
    /\ op' = [op EXCEPT ![p] = "create_or_update"]
    /\ app_name' = [app_name EXCEPT ![p] = app]
    /\ service_configs' = [service_configs EXCEPT ![p] = scs]
    /\ k' = [k EXCEPT ![p] = 1]
    /\ Enter(p)
    /\ UNCHANGED <<templates, remembered>>
    /\ LET master == GetConfigsOfApp(backend, "master")
           query == Call("get_configs_of_app", "master", 0, <<>>, TRUE, master)
           failed == Call("get_configs_of_app", "master", 0, <<>>, FALSE, <<>>)
           load(ok) == Call("get_application_companion_configs", "-", 0, <<>>, ok, <<>>)
           queried == IF SkipsReplication(app) THEN <<>> ELSE <<query>>
           merged == IF SkipsReplication(app) THEN Cloned(app, scs)
                     ELSE Cloned(app, scs) \o Replicas(master, scs)
       IN  \/ /\ ~ SkipsReplication(app)
              /\ configs' = [configs EXCEPT ![p] = Cloned(app, scs)]
              /\ trace' = [trace EXCEPT ![p] = <<failed>>]
              /\ Return(p, FromFailureError)
           \/ /\ configs' = [configs EXCEPT ![p] = merged]
              /\ trace' = [trace EXCEPT ![p] = queried \o <<load(FALSE)>>]
              /\ Return(p, FromConfigError)
           \/ /\ configs' = [configs EXCEPT ![p] = merged]
              /\ trace' = [trace EXCEPT ![p] = queried \o <<load(TRUE)>>]
              /\ pc' = [pc EXCEPT ![p] = "companions"]
              /\ result' = [result EXCEPT ![p] = NoResult]

\* the template applied to the configs as they were before the loop
Context_stale(p) == SubSeq(configs[p], 1, Len(configs[p]) - (k[p] - 1))

\* line 94: the configs the template is applied to
Context(p) == configs[p]

\* the template's error dropped: the loop goes on to the next template
OnTemplateError_skip(p) ==
    /\ k' = [k EXCEPT ![p] = @ + 1]
    /\ UNCHANGED <<configs, pc, result, backend, changed>>

\* line 96: the `?` on the template's result
OnTemplateError(p) ==
    /\ Return(p, FromTemplateRenderError)
    /\ UNCHANGED <<configs, k, backend, changed>>

\* lines 90-97: one turn of the loop over the templates
ApplyCompanion(p) ==
    /\ pc[p] = "companions"
    /\ k[p] <= Len(templates)
    /\ UNCHANGED <<templates, op, app_name, service_configs, remembered>>
    /\ LET t == templates[k[p]]
           applied == ApplyTemplating(t, app_name[p], Context(p))
       IN  IF Resolvable(t, Context(p))
           THEN /\ configs' = [configs EXCEPT ![p] = Append(@, applied)]
                /\ trace' = [trace EXCEPT ![p] = Append(@,
                       Call("apply_templating", app_name[p], k[p], Context(p), TRUE, <<applied>>))]
                /\ k' = [k EXCEPT ![p] = @ + 1]
                /\ UNCHANGED <<pc, result, backend, changed>>
           ELSE /\ trace' = [trace EXCEPT ![p] = Append(@,
                       Call("apply_templating", app_name[p], k[p], Context(p), FALSE, <<>>))]
                /\ OnTemplateError(p)

\* the start made with replicas of what master runs at the start, not of
\* what the call's query returned
StartServices_fresh(p, keep) ==
    /\ pc[p] = "companions"
    /\ k[p] > Len(templates)
    /\ UNCHANGED <<templates, op, app_name, service_configs, configs, k>>
    /\ LET companions == SubSeq(configs[p], Len(configs[p]) - Len(templates) + 1, Len(configs[p]))
           fresh == IF SkipsReplication(app_name[p]) THEN configs[p]
                    ELSE service_configs[p]
                         \o Replicas(GetConfigsOfApp(backend, "master"), service_configs[p])
                         \o companions
       IN  \/ /\ backend' = StartServicesIn(backend, app_name[p], fresh)
              /\ trace' = [trace EXCEPT ![p] = Append(@,
                     Call("start_services", app_name[p], 0, fresh, TRUE, fresh))]
              /\ Return(p, Ok(fresh))
           \/ /\ UNCHANGED backend
              /\ trace' = [trace EXCEPT ![p] = Append(@,
                     Call("start_services", app_name[p], 0, fresh, FALSE, <<>>))]
              /\ Return(p, FromFailureError)
    /\ Touch
    /\ Remember(p, keep)

\* a failed start issued a second time before the error is returned
StartServices_retry(p, keep) ==
    /\ pc[p] = "companions"
    /\ k[p] > Len(templates)
    /\ UNCHANGED <<templates, op, app_name, service_configs, configs, k>>
    /\ \/ /\ backend' = StartServicesIn(backend, app_name[p], configs[p])
          /\ trace' = [trace EXCEPT ![p] = Append(@,
                 Call("start_services", app_name[p], 0, configs[p], TRUE, configs[p]))]
          /\ Return(p, Ok(configs[p]))
       \/ /\ UNCHANGED backend
          /\ trace' = [trace EXCEPT ![p] = Append(@,
                 Call("start_services", app_name[p], 0, configs[p], FALSE, <<>>))]
          /\ IF Last(trace[p]).op = "start_services"
             THEN Return(p, FromFailureError)
             ELSE UNCHANGED <<pc, result>>
    /\ Touch
    /\ Remember(p, keep)

\* lines 99-105
StartServices(p, keep) ==
    /\ pc[p] = "companions"
    /\ k[p] > Len(templates)
    /\ UNCHANGED <<templates, op, app_name, service_configs, configs, k>>
    /\ \/ /\ backend' = StartServicesIn(backend, app_name[p], configs[p])
          /\ trace' = [trace EXCEPT ![p] = Append(@,
                 Call("start_services", app_name[p], 0, configs[p], TRUE, configs[p]))]
          /\ Return(p, Ok(configs[p]))
       \/ /\ UNCHANGED backend
          /\ trace' = [trace EXCEPT ![p] = Append(@,
                 Call("start_services", app_name[p], 0, configs[p], FALSE, <<>>))]
          /\ Return(p, FromFailureError)
    /\ Touch
    /\ Remember(p, keep)

\* ------------------------------------------------------------------ delete_app
\* the match taking any running app for the app asked for
Found_any(services, app) == DOMAIN services # {}

\* the match going on to the stop whatever the mapping holds
Found_always(services, app) == TRUE

\* line 110: get_vec(app_name) is Some
Found(services, app) == app \in DOMAIN services

\* lines 109-111: the query of the running services and the match on the app
DeleteApp(p, app) ==
    /\ pc[p] = "idle"
    /\ op' = [op EXCEPT ![p] = "delete_app"]
    /\ app_name' = [app_name EXCEPT ![p] = app]
    /\ service_configs' = [service_configs EXCEPT ![p] = <<>>]
    /\ configs' = [configs EXCEPT ![p] = <<>>]
    /\ k' = [k EXCEPT ![p] = 1]
    /\ Enter(p)
    /\ UNCHANGED <<templates, remembered>>
    /\ LET services == GetServices(backend)
       IN  \/ /\ trace' = [trace EXCEPT ![p] =
                     <<Call("get_services", "-", 0, <<>>, FALSE, <<>>)>>]
              /\ Return(p, FromFailureError)
           \/ /\ ~ Found(services, app)
              /\ trace' = [trace EXCEPT ![p] =
                     <<Call("get_services", "-", 0, <<>>, TRUE, <<>>)>>]
              /\ Return(p, AppNotFound(app))
           \/ /\ Found(services, app)
              /\ trace' = [trace EXCEPT ![p] =
                     <<Call("get_services", "-", 0, <<>>, TRUE, <<>>)>>]
              /\ pc' = [pc EXCEPT ![p] = "stop"]
              /\ result' = [result EXCEPT ![p] = NoResult]

\* the stop preceded by a second look at what runs: an app that runs
\* nothing by now is reported as not found and stop_services is not invoked
StopServices_checked(p) ==
    /\ pc[p] = "stop"
    /\ UNCHANGED <<templates, op, app_name, service_configs, configs, k, remembered>>
    /\ IF backend[app_name[p]] = <<>>
       THEN /\ UNCHANGED <<backend, trace>>
            /\ Return(p, AppNotFound(app_name[p]))
       ELSE \/ /\ backend' = StopServicesIn(backend, app_name[p])
               /\ trace' = [trace EXCEPT ![p] = Append(@,
                      Call("stop_services", app_name[p], 0, <<>>, TRUE, backend[app_name[p]]))]
               /\ Return(p, Ok(backend[app_name[p]]))
            \/ /\ UNCHANGED backend
               /\ trace' = [trace EXCEPT ![p] = Append(@,
                      Call("stop_services", app_name[p], 0, <<>>, FALSE, <<>>))]
               /\ Return(p, FromFailureError)
    /\ Touch

\* line 112
StopServices(p) ==
    /\ pc[p] = "stop"
    /\ UNCHANGED <<templates, op, app_name, service_configs, configs, k, remembered>>
    /\ \/ /\ backend' = StopServicesIn(backend, app_name[p])
          /\ trace' = [trace EXCEPT ![p] = Append(@,
                 Call("stop_services", app_name[p], 0, <<>>, TRUE, backend[app_name[p]]))]
          /\ Return(p, Ok(backend[app_name[p]]))
       \/ /\ UNCHANGED backend
          /\ trace' = [trace EXCEPT ![p] = Append(@,
                 Call("stop_services", app_name[p], 0, <<>>, FALSE, <<>>))]
          /\ Return(p, FromFailureError)
    /\ Touch

\* ------------------------------------------------------------------ get_apps
\* an empty mapping reported as a failure
GetAppsResult_nonempty(services) ==
    IF DOMAIN services = {} THEN FromFailureError ELSE OkApps(services)

\* line 53: Ok(...) of the services the infrastructure reports
GetAppsResult(services) == OkApps(services)

\* lines 52-54
GetApps(p) ==
    /\ pc[p] = "idle"
    /\ op' = [op EXCEPT ![p] = "get_apps"]
    /\ app_name' = [app_name EXCEPT ![p] = "-"]
    /\ service_configs' = [service_configs EXCEPT ![p] = <<>>]
    /\ configs' = [configs EXCEPT ![p] = <<>>]
    /\ k' = [k EXCEPT ![p] = 1]
    /\ Enter(p)
    /\ UNCHANGED <<templates, remembered>>
    /\ \/ /\ trace' = [trace EXCEPT ![p] =
                 <<Call("get_services", "-", 0, <<>>, TRUE, <<>>)>>]
          /\ Return(p, GetAppsResult(GetServices(backend)))
       \/ /\ trace' = [trace EXCEPT ![p] =
                 <<Call("get_services", "-", 0, <<>>, FALSE, <<>>)>>]
          /\ Return(p, FromFailureError)

\* the caller takes the result: the call's locals are dropped
Respond(p) ==
    /\ pc[p] = "done"
    /\ pc' = [pc EXCEPT ![p] = "idle"]
    /\ op' = [op EXCEPT ![p] = "-"]
    /\ app_name' = [app_name EXCEPT ![p] = "-"]
    /\ service_configs' = [service_configs EXCEPT ![p] = <<>>]
    /\ configs' = [configs EXCEPT ![p] = <<>>]
    /\ k' = [k EXCEPT ![p] = 1]
    /\ trace' = [trace EXCEPT ![p] = <<>>]
    /\ result' = [result EXCEPT ![p] = NoResult]
    /\ changed' = [changed EXCEPT ![p] = FALSE]
    /\ remembered' = [remembered EXCEPT !.live = FALSE]
    /\ UNCHANGED <<backend, templates>>

\* ------------------------------------------------------------------ specification
\* master runs web and db, nothing else runs; no call has been made
Init ==
    /\ backend = [a \in Apps |->
           IF a = "master"
           THEN <<ServiceConfig("web", "Primary", MasterImage),
                  ServiceConfig("db", "Primary", MasterImage)>>
           ELSE <<>>]
    /\ templates \in TemplateLists
    /\ pc = [p \in Procs |-> "idle"]
    /\ op = [p \in Procs |-> "-"]
    /\ app_name = [p \in Procs |-> "-"]
    /\ service_configs = [p \in Procs |-> <<>>]
    /\ configs = [p \in Procs |-> <<>>]
    /\ k = [p \in Procs |-> 1]
    /\ trace = [p \in Procs |-> <<>>]
    /\ result = [p \in Procs |-> NoResult]
    /\ changed = [p \in Procs |-> FALSE]
    /\ remembered = NoCall

Step(p, keep) ==
    \/ \E app \in Apps, scs \in SeqsUpTo(CallerConfigs, MaxConfigs) : CreateOrUpdate(p, app, scs)
    \/ ApplyCompanion(p)
    \/ StartServices(p, keep)
    \/ \E app \in Apps : DeleteApp(p, app)
    \/ StopServices(p)
    \/ GetApps(p)
    \/ Respond(p)

\* one caller at a time: each call runs to its end before the next begins
Next == Step("c1", FALSE)

Spec == Init /\ [][Next]_vars

\* the same caller, its first create_or_update to reach start_services
\* remembered, under the configuration of one companion, which refers to
\* a service of the app
InitTwice == Init /\ templates = <<Template("web", "db")>>

NextTwice == Step("c1", TRUE)

SpecTwice == InitTwice /\ [][NextTwice]_vars

\* two callers at once: &self is shared and nothing in AppsService
\* serializes its calls, so their steps interleave at the calls on the
\* infrastructure. The callers post nothing or web; one companion is
\* configured.
RaceConfigs == {<<>>, <<ServiceConfig("web", "Primary", <<"i2">>)>>}

InitRace == Init /\ templates = <<Template("adm", NoRef)>>

StepRace(p) ==
    \/ \E app \in Apps, scs \in RaceConfigs : CreateOrUpdate(p, app, scs)
    \/ ApplyCompanion(p)
    \/ StartServices(p, FALSE)
    \/ \E app \in Apps : DeleteApp(p, app)
    \/ StopServices(p)
    \/ GetApps(p)
    \/ Respond(p)

NextRace == \E p \in Procs : StepRace(p)

SpecRace == InitRace /\ [][NextRace]_vars

\* ------------------------------------------------------------------ what a call did
Distinct(cs) == \A i, j \in DOMAIN cs : i # j => cs[i].service_name # cs[j].service_name
Count(s, c) == Cardinality({i \in DOMAIN s : s[i] = c})
SameBag(s, t) == Len(s) = Len(t) /\ \A i \in DOMAIN s : Count(s, s[i]) = Count(t, s[i])

IsCreateOrUpdate(p) == op[p] = "create_or_update"

\* the call of p has invoked start_services
ReachedStart(p) ==
    IsCreateOrUpdate(p) /\ trace[p] # <<>> /\ Last(trace[p]).op = "start_services"

\* the config list p passed to start_services
Sent(p) == Last(trace[p]).arg

\* what get_configs_of_app("master") returned to p
Queried(p) == trace[p] # <<>> /\ trace[p][1].op = "get_configs_of_app" /\ trace[p][1].ok
MasterReply(p) == trace[p][1].ret

\* the applications of templates p has made, and the configs they returned
Applications(p) == SelectSeq(trace[p], LAMBDA c : c.op = "apply_templating")
Companions(p) ==
    LET done == SelectSeq(trace[p], LAMBDA c : c.op = "apply_templating" /\ c.ok)
    IN  [j \in 1..Len(done) |-> done[j].ret[1]]

\* the master configs no caller config overrides, as replicas, in the
\* order of the master query
Kept(master, scs) == {i \in DOMAIN master : master[i].service_name \notin NamesOf(scs)}
NthOf(S, j) == CHOOSE i \in S : Cardinality({x \in S : x < i}) = j - 1
ExpectedReplicas(master, scs) ==
    [j \in 1..Cardinality(Kept(master, scs)) |->
        LET m == master[NthOf(Kept(master, scs), j)]
        IN  [service_name |-> m.service_name, container_type |-> "Replica", image |-> m.image]]

C2_NoDuplicateNames ==
    \A p \in Procs :
        (ReachedStart(p) /\ Distinct(service_configs[p])) => Distinct(Sent(p))

\* C3: create_or_update("master", configs) passes to start_services the
\* caller's configs followed only by the companions: no replica is
\* appended, whatever master runs.
C3_MasterGetsNoReplicas ==
    \A p \in Procs :
        (IsCreateOrUpdate(p) /\ app_name[p] = "master") =>
            /\ configs[p] = service_configs[p] \o Companions(p)
            /\ ReachedStart(p) => Sent(p) = service_configs[p] \o Companions(p)

C3_Witness ==
    \E p \in Procs :
        /\ ReachedStart(p) /\ app_name[p] = "master" /\ result[p].kind = "Ok"
        /\ Len(service_configs[p]) = 1
        /\ Len(Companions(p)) = 1
        /\ \E i \in DOMAIN backend["master"] :
               backend["master"][i].service_name \notin NamesOf(service_configs[p])

\* C4: for an app other than master, a caller config with the name of a
\* master config is in the list passed to start_services, unaltered, and
\* no replica of that name is.
C4_CallerOverridesMaster ==
    \A p \in Procs :
        (ReachedStart(p) /\ app_name[p] # "master") =>
            \A i \in DOMAIN service_configs[p] :
                service_configs[p][i].service_name \in NamesOf(MasterReply(p)) =>
                    /\ Sent(p)[i] = service_configs[p][i]
                    /\ \A j \in (Len(service_configs[p]) + 1)..(Len(Sent(p)) - Len(templates)) :
                           Sent(p)[j].service_name # service_configs[p][i].service_name

\* master runs web and db, the caller posts web with another image: the
\* list is the caller's web and the replica of db
C4_Witness ==
    \E p \in Procs :
        /\ ReachedStart(p) /\ app_name[p] = "review" /\ templates = <<>>
        /\ MasterReply(p) = <<ServiceConfig("web", "Primary", MasterImage),
                               ServiceConfig("db", "Primary", MasterImage)>>
        /\ service_configs[p] = <<ServiceConfig("web", "Primary", <<"i2">>)>>
        /\ Sent(p) = <<ServiceConfig("web", "Primary", <<"i2">>),
                        ServiceConfig("db", "Replica", MasterImage)>>

\* C5: delete_app returns AppNotFound(app_name) exactly when the mapping
\* get_services() returned to it has no entry for app_name.
C5_AppNotFoundIffNoEntry ==
    [][\A p \in Procs :
          /\ (pc[p] = "idle" /\ op'[p] = "delete_app") =>
                 /\ (result'[p].kind = "AppNotFound") <=>
                        (trace'[p][1].ok /\ app_name'[p] \notin DOMAIN GetServices(backend))
                 /\ result'[p].kind = "AppNotFound" => result'[p].app = app_name'[p]
                 /\ result'[p].kind = "None" <=> pc'[p] = "stop"
          /\ (pc[p] = "stop" /\ pc'[p] = "done") => result'[p].kind # "AppNotFound"
      ]_vars

C5_Witness ==
    \E p \in Procs :
        /\ op[p] = "delete_app" /\ pc[p] = "done"
        /\ result[p] = AppNotFound("review")
        /\ backend["review"] = <<>> /\ backend["master"] # <<>>

\* C6: when the application of a template fails, create_or_update returns
\* InvalidTemplateFormat, has not invoked start_services, and the backend's
\* state is as it was when the call began.
C6_TemplateFailureAborts ==
    \A p \in Procs :
        (IsCreateOrUpdate(p) /\ \E i \in DOMAIN trace[p] :
                                    trace[p][i].op = "apply_templating" /\ ~ trace[p][i].ok) =>
            /\ pc[p] = "done"
            /\ result[p] = FromTemplateRenderError
            /\ Last(trace[p]).op = "apply_templating"
            /\ \A i \in DOMAIN trace[p] : trace[p][i].op # "start_services"
            /\ ~ changed[p]

\* the second template fails after the first was applied
C6_Witness ==
    \E p \in Procs :
        /\ IsCreateOrUpdate(p) /\ pc[p] = "done"
        /\ result[p].kind = "InvalidTemplateFormat"
        /\ Len(Applications(p)) = 2
        /\ Applications(p)[1].ok /\ ~ Applications(p)[2].ok
        /\ backend[app_name[p]] # <<>>

\* C7: the templates are applied in load order, the k-th to the caller's
\* configs, the replicas and the companions of the templates 1..k-1, in
\* that order.
C7_ContextGrowsInLoadOrder ==
    \A p \in Procs :
        IsCreateOrUpdate(p) =>
            LET base == IF app_name[p] = "master" THEN service_configs[p]
                        ELSE service_configs[p]
                             \o ExpectedReplicas(MasterReply(p), service_configs[p])
            IN  \A j \in DOMAIN Applications(p) :
                    /\ Applications(p)[j].n = j
                    /\ Applications(p)[j].arg = base \o SubSeq(Companions(p), 1, j - 1)
                    /\ Applications(p)[j].ok =>
                           Applications(p)[j].ret[1].service_name = templates[j].service_name

\* the second template refers to the companion of the first, and its
\* config is made of it
C7_Witness ==
    \E p \in Procs :
        /\ IsCreateOrUpdate(p)
        /\ templates = <<Template("adm", NoRef), Template("mon", "adm")>>
        /\ Len(Applications(p)) = 2
        /\ Applications(p)[2].ok
        /\ "adm" \notin NamesOf(Applications(p)[1].arg)
        /\ Last(Applications(p)[2].arg) = Applications(p)[1].ret[1]
        /\ Applications(p)[2].ret[1].image = <<app_name[p]>> \o Applications(p)[1].ret[1].image

\* C8: in the list passed to start_services the caller's configs come
\* first, in the caller's order and unaltered, then the replicas in the
\* order of the master query, then the companions.
C8_CallerThenReplicasThenCompanions ==
    \A p \in Procs :
        ReachedStart(p) =>
            LET n == Len(service_configs[p])
                reps == IF app_name[p] = "master" THEN <<>>
                        ELSE ExpectedReplicas(MasterReply(p), service_configs[p])
                r == Len(reps)
            IN  /\ Len(Sent(p)) = n + r + Len(Companions(p))
                /\ \A i \in 1..n : Sent(p)[i] = service_configs[p][i]
                /\ \A i \in 1..r : Sent(p)[n + i] = reps[i]
                /\ \A i \in DOMAIN Companions(p) : Sent(p)[n + r + i] = Companions(p)[i]

C8_Witness ==
    \E p \in Procs :
        /\ ReachedStart(p) /\ app_name[p] = "review"
        /\ Len(service_configs[p]) = 2
        /\ service_configs[p][1].service_name = "db"
        /\ Len(ExpectedReplicas(MasterReply(p), service_configs[p])) = 2
        /\ Len(Companions(p)) = 2

\* C9: a create_or_update with the app_name, the service_configs, the
\* reply of the master query and the templates of an earlier one passes
\* the same list to start_services, whatever was called in between.
C9_SameInputsSameList ==
    \A p \in Procs :
        (/\ ReachedStart(p)
         /\ remembered # NoCall
         /\ remembered.app = app_name[p]
         /\ remembered.scs = service_configs[p]
         /\ remembered.master = (IF Queried(p) THEN MasterReply(p) ELSE <<>>)) =>
            Sent(p) = remembered.sent

\* a later call with the inputs of the remembered one, made when the app
\* ran something else than the remembered call had started
C9_Witness ==
    \E p \in Procs :
        /\ ReachedStart(p) /\ result[p].kind = "Ok"
        /\ remembered # NoCall /\ ~ remembered.live
        /\ remembered.app = app_name[p] /\ app_name[p] = "review"
        /\ remembered.scs = service_configs[p]
        /\ Queried(p) /\ remembered.master = MasterReply(p)
        /\ Len(Sent(p)) = 3
        /\ changed[p]

\* C10: get_apps returns the mapping get_services() reports, the empty one
\* included, fails with InfrastructureError only when get_services()
\* fails, invokes nothing else and leaves the backend as it is.
C10_GetAppsIsAPassthrough ==
    [][\A p \in Procs :
          (pc[p] = "idle" /\ op'[p] = "get_apps") =>
              /\ backend' = backend
              /\ pc'[p] = "done"
              /\ Len(trace'[p]) = 1
              /\ trace'[p][1].op = "get_services"
              /\ trace'[p][1].ok =>
                     /\ result'[p].kind = "Ok"
                     /\ result'[p].apps = GetServices(backend)
              /\ ~ trace'[p][1].ok => result'[p] = FromFailureError
      ]_vars

\* nothing runs, and get_apps returned the empty mapping
C10_Witness ==
    \E p \in Procs :
        /\ op[p] = "get_apps" /\ pc[p] = "done"
        /\ \A a \in Apps : backend[a] = <<>>
        /\ result[p].kind = "Ok"
        /\ DOMAIN result[p].apps = {}

\* C11: the existence check of delete_app and its stop_services are two
\* steps: a caller whose check found the app invokes stop_services(app_name)
\* and returns what it reports, never AppNotFound, also when another
\* caller has stopped the app in between.
C11_StopAfterOwnCheckOnly ==
    [][\A p \in Procs :
          (pc[p] = "stop" /\ pc'[p] = "done") =>
              /\ trace[p][1].op = "get_services" /\ trace[p][1].ok
              /\ Len(trace'[p]) = 2
              /\ trace'[p][2].op = "stop_services" /\ trace'[p][2].app = app_name[p]
              /\ result'[p].kind \in {"Ok", "InfrastructureError"}
      ]_vars

\* two delete_app of the same app: both passed the check, one stopped the
\* app's services, the other invoked stop_services when nothing ran
C11_Witness ==
    \E p, q \in Procs :
        /\ p # q
        /\ op[p] = "delete_app" /\ op[q] = "delete_app"
        /\ app_name[p] = app_name[q]
        /\ pc[p] = "done" /\ pc[q] = "done"
        /\ Len(trace[p]) = 2 /\ Len(trace[q]) = 2
        /\ trace[p][2].op = "stop_services" /\ trace[p][2].ok /\ trace[p][2].ret # <<>>
        /\ trace[q][2].op = "stop_services" /\ trace[q][2].ok /\ trace[q][2].ret = <<>>
        /\ result[q].kind = "Ok"
        /\ backend[app_name[p]] = <<>>

\* C12: create_or_update calls are not serialized: the list a call passes
\* to start_services is made of the reply its own master query got,
\* whatever master runs when it starts, so two calls for the same app with
\* the same service_configs can pass different lists, and a list can hold
\* a replica of a service master no longer runs.
C12_StartUsesOwnSnapshot ==
    [][\A p \in Procs :
          (pc[p] = "companions" /\ pc'[p] = "done" /\ Last(trace'[p]).op = "start_services") =>
              /\ Last(trace'[p]).app = app_name[p]
              /\ Last(trace'[p]).arg =
                     (IF app_name[p] = "master" THEN service_configs[p]
                      ELSE service_configs[p]
                           \o ExpectedReplicas(MasterReply(p), service_configs[p]))
                     \o Companions(p)
      ]_vars

\* two calls for review with the same service_configs got different
\* replies of the master query and started different lists; q queried
\* master as it runs now and started, p started last, and p's list
\* holds a replica of a service master does not run
C12_Witness ==
    \E p, q \in Procs :
        /\ p # q
        /\ ReachedStart(p) /\ ReachedStart(q)
        /\ result[p].kind = "Ok" /\ result[q].kind = "Ok"
        /\ app_name[p] = "review" /\ app_name[q] = "review"
        /\ service_configs[p] = service_configs[q]
        /\ MasterReply(p) # MasterReply(q)
        /\ Sent(p) # Sent(q)
        /\ backend["review"] = Sent(p)
        /\ backend["master"] = MasterReply(q)
        /\ \E i \in DOMAIN Sent(p) :
               /\ Sent(p)[i].container_type = "Replica"
               /\ Sent(p)[i].service_name \notin NamesOf(backend["master"])

\* C13: a failure in create_or_update ends the call at once with the one
\* error kind of what failed: the master query InfrastructureError (no
\* template applied), the load of the companion configs
\* InvalidServerConfiguration, a template InvalidTemplateFormat, all three
\* without start_services; start_services itself InfrastructureError.
KindOfFailure(o) ==
    CASE o = "get_configs_of_app" -> "InfrastructureError"
      [] o = "get_application_companion_configs" -> "InvalidServerConfiguration"
      [] o = "apply_templating" -> "InvalidTemplateFormat"
      [] o = "start_services" -> "InfrastructureError"
      [] OTHER -> "None"

C13_OneKindPerFailure ==
    \A p \in Procs :
        IsCreateOrUpdate(p) =>
            /\ \A i \in DOMAIN trace[p] :
                   ~ trace[p][i].ok =>
                       /\ i = Len(trace[p])
                       /\ pc[p] = "done"
                       /\ result[p].kind = KindOfFailure(trace[p][i].op)
                       /\ result[p].services = <<>>
                       /\ trace[p][i].op # "start_services" =>
                              \A j \in DOMAIN trace[p] : trace[p][j].op # "start_services"
                       /\ trace[p][i].op = "get_configs_of_app" =>
                              (i = 1 /\ Applications(p) = <<>>)
            /\ (pc[p] = "done" /\ result[p].kind # "Ok") =>
                   (trace[p] # <<>> /\ ~ Last(trace[p]).ok)

\* the load of the companion configs failed after the master query
C13_Witness ==
    \E p \in Procs :
        /\ IsCreateOrUpdate(p) /\ pc[p] = "done"
        /\ Queried(p) /\ MasterReply(p) # <<>>
        /\ Len(trace[p]) = 2
        /\ trace[p][2].op = "get_application_companion_configs" /\ ~ trace[p][2].ok
        /\ result[p].kind = "InvalidServerConfiguration"

\* C14: delete_app invokes stop_services only after its check found an
\* entry for app_name, then once, for app_name, and returns what it
\* reports; a delete_app that ends with AppNotFound or with the failure of
\* get_services() has not invoked it, and the backend is as it was.
C14_StopOnlyWhenFound ==
    [][\A p \in Procs :
          /\ (pc[p] = "idle" /\ op'[p] = "delete_app") =>
                 /\ backend' = backend
                 /\ Len(trace'[p]) = 1 /\ trace'[p][1].op = "get_services"
                 /\ pc'[p] = "stop" <=>
                        (trace'[p][1].ok /\ backend[app_name'[p]] # <<>>)
                 /\ pc'[p] # "stop" =>
                        /\ pc'[p] = "done"
                        /\ result'[p].kind \in {"AppNotFound", "InfrastructureError"}
                        /\ result'[p].kind = "InfrastructureError" <=> ~ trace'[p][1].ok
          /\ (pc[p] = "stop" /\ pc'[p] # "stop") =>
                 /\ pc'[p] = "done"
                 /\ trace'[p] = Append(trace[p], Last(trace'[p]))
                 /\ Last(trace'[p]).op = "stop_services"
                 /\ Last(trace'[p]).app = app_name[p]
                 /\ \A a \in Apps \ {app_name[p]} : backend'[a] = backend[a]
                 /\ IF Last(trace'[p]).ok
                    THEN /\ result'[p].kind = "Ok"
                         /\ result'[p].services = Last(trace'[p]).ret
                         /\ Last(trace'[p]).ret = backend[app_name[p]]
                         /\ backend'[app_name[p]] = <<>>
                    ELSE /\ result'[p].kind = "InfrastructureError"
                         /\ backend' = backend
          /\ (op[p] = "delete_app" /\ pc[p] = "done") =>
                 (op'[p] = "delete_app" => trace'[p] = trace[p])
      ]_vars

\* review was stopped while master runs on
C14_Witness ==
    \E p \in Procs :
        /\ op[p] = "delete_app" /\ pc[p] = "done" /\ app_name[p] = "review"
        /\ result[p].kind = "Ok" /\ Len(result[p].services) = 2
        /\ Len(trace[p]) = 2 /\ trace[p][2].op = "stop_services"
        /\ backend["review"] = <<>> /\ backend["master"] # <<>>

\* C15: a create_or_update for master never invokes get_configs_of_app, so
\* it has no failure of that query to report; it still loads the
\* application-companion templates and applies every one of them before it
\* starts the services.
C15_MasterSkipsTheQuery ==
    \A p \in Procs :
        (IsCreateOrUpdate(p) /\ app_name[p] = "master" /\ trace[p] # <<>>) =>
            /\ \A i \in DOMAIN trace[p] : trace[p][i].op # "get_configs_of_app"
            /\ trace[p][1].op = "get_application_companion_configs"
            /\ result[p].kind = "InfrastructureError" =>
                   (Last(trace[p]).op = "start_services" /\ ~ Last(trace[p]).ok)
            /\ ReachedStart(p) =>
                   /\ Len(Applications(p)) = Len(templates)
                   /\ \A j \in DOMAIN templates :
                          /\ Applications(p)[j].ok
                          /\ \E i \in DOMAIN Sent(p) : Sent(p)[i] = Applications(p)[j].ret[1]

\* master was started with its two companions, with no query made
C15_Witness ==
    \E p \in Procs :
        /\ ReachedStart(p) /\ app_name[p] = "master" /\ result[p].kind = "Ok"
        /\ Len(templates) = 2 /\ Len(Companions(p)) = 2
        /\ Len(trace[p]) = 4
        /\ Len(Sent(p)) = Len(service_configs[p]) + 2

\* the place of a collaborator call in the order of create_or_update
Rank(o) ==
    CASE o = "get_configs_of_app" -> 1
      [] o = "get_application_companion_configs" -> 2
      [] o = "apply_templating" -> 3
      [] o = "start_services" -> 4
      [] OTHER -> 0

\* C16: in one create_or_update the collaborator calls come in one order:
\* get_configs_of_app("master") at most once and first, for an app other
\* than master only, then the templates one by one in load order, then
\* start_services at most once and last; a call that returned Ok made
\* exactly one start_services, and nothing follows a failed call.
C16_FixedOrderNoRetry ==
    \A p \in Procs :
        IsCreateOrUpdate(p) =>
            /\ \A i, j \in DOMAIN trace[p] :
                   i < j =>
                       /\ Rank(trace[p][i].op) <= Rank(trace[p][j].op)
                       /\ Rank(trace[p][i].op) = Rank(trace[p][j].op) =>
                              trace[p][i].op = "apply_templating"
                       /\ trace[p][i].ok
            /\ \A i \in DOMAIN trace[p] :
                   /\ Rank(trace[p][i].op) # 0
                   /\ trace[p][i].op = "get_configs_of_app" =>
                          (i = 1 /\ trace[p][i].app = "master" /\ app_name[p] # "master")
                   /\ trace[p][i].op = "start_services" => pc[p] = "done"
            /\ \A j \in DOMAIN Applications(p) : Applications(p)[j].n = j
            /\ Len(Applications(p)) <= Len(templates)
            /\ (pc[p] = "done" /\ result[p].kind = "Ok") =>
                   /\ Cardinality({i \in DOMAIN trace[p] : trace[p][i].op = "start_services"}) = 1
                   /\ Last(trace[p]).op = "start_services" /\ Last(trace[p]).ok
                   /\ Len(Applications(p)) = Len(templates)

\* a call that made all four kinds of call, and whose start failed
C16_Witness ==
    \E p \in Procs :
        /\ IsCreateOrUpdate(p) /\ pc[p] = "done" /\ app_name[p] = "review"
        /\ Len(trace[p]) = 5
        /\ trace[p][1].op = "get_configs_of_app"
        /\ trace[p][2].op = "get_application_companion_configs"
        /\ trace[p][3].op = "apply_templating" /\ trace[p][4].op = "apply_templating"
        /\ trace[p][5].op = "start_services" /\ ~ trace[p][5].ok
        /\ result[p].kind = "InfrastructureError"

\* the configs of a master reply that are neither replicas nor derived
\* companions
NonReplicaSet(master) ==
    SelectSeq(master, LAMBDA c : c.container_type \notin {"Replica", "ApplicationCompanion"})

\* what the replication step appended to the list p passed to start_services
Appended(p) ==
    SubSeq(Sent(p), Len(service_configs[p]) + 1, Len(Sent(p)) - Len(Companions(p)))

\* C17: the replicas a create_or_update for an app other than master
\* appends are copies of master's non-replica configs only: a config the
\* query reports as Replica, or as a companion derived for master, is not
\* copied.
C17_ReplicatesNonReplicasOnly ==
    \A p \in Procs :
        (ReachedStart(p) /\ Queried(p)) =>
            Appended(p) = ExpectedReplicas(NonReplicaSet(MasterReply(p)), service_configs[p])

\* how many configs of cs are named n
Named(cs, n) == Cardinality({i \in DOMAIN cs : cs[i].service_name = n})

\* C18: the replication step decides on each master config from the
\* caller's service_configs alone: of every name the caller does not use
\* it appends as many replicas as the query returned configs of that name,
\* of every name the caller uses none, whatever it appended before; the
\* number of replicas appended is the number of master configs whose name
\* is not in the caller's list.
C18_DecidesOnCallerListOnly ==
    \A p \in Procs :
        (ReachedStart(p) /\ Queried(p)) =>
            /\ Len(Appended(p)) =
                   Cardinality({i \in DOMAIN MasterReply(p) :
                       \A c \in DOMAIN service_configs[p] :
                           service_configs[p][c].service_name # MasterReply(p)[i].service_name})
            /\ \A n \in NamesOf(MasterReply(p)) \cup NamesOf(Appended(p)) :
                   Named(Appended(p), n) =
                       IF n \in NamesOf(service_configs[p]) THEN 0
                       ELSE Named(MasterReply(p), n)
            /\ \A i \in DOMAIN Appended(p) : Appended(p)[i].container_type = "Replica"

\* master reports two configs of one name the caller does not use: both
\* are appended
C18_Witness ==
    \E p \in Procs :
        /\ ReachedStart(p) /\ Queried(p) /\ app_name[p] = "review"
        /\ Len(MasterReply(p)) = 2
        /\ MasterReply(p)[1].service_name = MasterReply(p)[2].service_name
        /\ MasterReply(p)[1].service_name \notin NamesOf(service_configs[p])
        /\ service_configs[p] # <<>>
        /\ Len(Appended(p)) = 2
        /\ Appended(p)[1].service_name = Appended(p)[2].service_name

====
